---- MODULE Spec2Model ----
(***************************************************************************)
(* imap_download.py: incremental download of IMAP mailboxes to local       *)
(* directories, with a ledger row per stored message.                      *)
(*                                                                         *)
(* The model follows main() / download() / LocalFolder statement by        *)
(* statement.  A mailbox name is the sequence of its path components under *)
(* os.path.join (<<"INBOX", "Sent">> is the name INBOX/Sent); a message    *)
(* file is in one of four conditions; the ledger is the bag of rows of the *)
(* emails table, keyed by (folder, uid).  The remote server is the         *)
(* environment: it answers every command with OK, with a non-OK response   *)
(* or by dropping the session, and its mailboxes change under the client.  *)
(***************************************************************************)
EXTENDS Integers, Sequences, FiniteSets, TLC

\* Largest message identifier (UID) the mailbox INBOX hands out.
MaxUid == 2

\* Largest UID any other mailbox hands out (at most MaxUid).
MaxUidOther == 1

\* Invocations of the program in one behaviour.
MaxRuns == 2

\* Changes other clients make to the server's mailboxes in one behaviour.
MaxChanges == 1

UIDs == 1..MaxUid

\* Mailbox names, as path components.
INBOX == <<"INBOX">>
Work == <<"Work">>
Sent == <<"INBOX", "Sent">>
Bulk == <<"Bulk">>
BulkMail == <<"Bulk Mail">>

\* The mailboxes the model gives content to (the excluded ones are never read).
Selectable == {INBOX, Work, Sent}

\* Every mailbox name of the model.
Folders == Selectable \cup {Bulk, BulkMail}

\* Largest UID mailbox f hands out.
UidCap(f) == IF f = INBOX THEN MaxUid ELSE MaxUidOther

\* What LIST may return, in listing order: a flat account, and one whose
\* hierarchy delimiter is the path separator.
Listings == {<<INBOX, Bulk, Work>>, <<INBOX, BulkMail, Sent>>}

\* What a fetched message offers store() for a timestamp: a parseable Date
\* header, no such header but an INTERNALDATE the extractor matches, or neither.
MsgKinds == {"date", "internaldate", "none"}

\* A message file: not there; created by open() with its content not (all)
\* written; content complete and the modification time that of the write;
\* content complete and the modification time the message's timestamp.
FileStates == {"absent", "open", "written", "stamped"}

VARIABLES
    mailboxes,   \* server: the LIST answer of this account
    remote,      \* server: mailbox -> set of UIDs it holds
    uidnext,     \* server: mailbox -> next UID it will assign
    changes,     \* server: changes made by other clients so far
    run,         \* which invocation of the program this is
    dirs,        \* local: the directories that exist under destination
    files,       \* local: mailbox -> UID -> condition of <uid>.eml
    ledger,      \* storage.sqlite: (mailbox, UID) -> number of rows
    pc,          \* where main() is
    exc,         \* the exception in flight (or last raised)
    loc,         \* download()'s local variables
    fetched,     \* history: UIDs for which FETCH was issued in this mailbox pass
    stored,      \* history: (mailbox, UID) whose store() returned in this invocation
    interrupted, \* history: an earlier invocation was interrupted between store() calls
    selected,    \* history: mailboxes for which SELECT was issued in this download()
    call         \* a call of one of the text functions: its argument and what it returned

vars == <<mailboxes, remote, uidnext, changes, run, dirs, files, ledger, pc, exc, loc,
          fetched, stored, interrupted, selected, call>>

server == <<mailboxes, remote, uidnext, changes, run>>
disk == <<dirs, files, ledger>>
hist == <<fetched, stored, interrupted, selected>>

NoExc == [kind |-> "none", line |-> 0]

\* No text function has been called.
NoCall == [fn |-> "none", kind |-> "none", src |-> <<>>, arg |-> <<>>, ret |-> <<>>]

InitLoc ==
    [folders |-> <<>>, idx |-> 0, count |-> 0, existing_count |-> 0,
     remote_uids |-> {}, local_uids |-> {}, missing_uids |-> <<>>, pos |-> 0,
     msg_uid |-> 0, data |-> "none"]

StorePcs == {"store_open", "store_write", "store_utime"}
EndPcs == {"done", "failed", "crashed"}

----------------------------------------------------------------------------
\* Pure helpers.

\* sorted(set of integers): ascending.
RECURSIVE sorted(_)
sorted(S) ==
    IF S = {} THEN <<>>
    ELSE LET m == CHOOSE x \in S : \A y \in S : x <= y
         IN  <<m>> \o sorted(S \ {m})

Range(s) == {s[i] : i \in 1..Len(s)}

\* os.makedirs(path): the directory and every missing parent.
Prefixes(p) == {SubSeq(p, 1, n) : n \in 1..Len(p)}

\* The sub-directories that are entries of mailbox directory p.
SubDirs(p, ds) ==
    {d \in ds : Len(d) = Len(p) + 1 /\ SubSeq(d, 1, Len(p)) = p}

\* The message files that are entries of mailbox directory p.
FileIds(p, fs) == {u \in UIDs : fs[p][u] # "absent"}

\* LocalFolder.count(): len(os.listdir(path)).
LocalCount(p, ds, fs) == Cardinality(FileIds(p, fs)) + Cardinality(SubDirs(p, ds))

\* Variants of the definitions below, each with one slip of the kind the code
\* could have; the properties at the end of the module are checked to tell
\* them from the code.
ExcludedBulkOnly(p) == p = Bulk
CaughtReadonly(e) == e.kind = "readonly"
CaughtError(e) == e.kind \in {"abort", "error"}
AlwaysSync(count, existing_count) == TRUE
MissingDescending(remote_uids, local_uids) ==
    LET up == sorted(remote_uids \ local_uids)
    IN  [i \in 1..Len(up) |-> up[Len(up) + 1 - i]]
SubsetUnchecked(local_uids, remote_uids) == TRUE
CountUnchecked(missing_uids, count, existing_count) == TRUE
RowUidByPosition(msg_uid, pos) == pos

\* dequote(folder).decode() in ["Bulk Mail", "Bulk"].
Excluded(p) == p \in {BulkMail, Bulk}

\* except imaplib.IMAP4.abort
Caught(e) == e.kind = "abort"

\* if count != existing_count
NeedsSync(count, existing_count) == count # existing_count

\* sorted(remote_uids - local_uids)
MissingUids(remote_uids, local_uids) == sorted(remote_uids \ local_uids)

\* assert local_uids.issubset(remote_uids)
SubsetOk(local_uids, remote_uids) == local_uids \subseteq remote_uids

\* assert len(missing_uids) == count - existing_count
CountOk(missing_uids, count, existing_count) ==
    Len(missing_uids) = count - existing_count

\* The uid column of the row download() inserts for the message it stored.
RowUid(msg_uid, pos) == msg_uid

Folder == loc.folders[loc.idx]

Raise(kind, line) ==
    /\ pc' = "raised"
    /\ exc' = [kind |-> kind, line |-> line]

----------------------------------------------------------------------------
\* The text functions.  A byte string is a sequence of one-byte strings;
\* indexes and slices are written as the code writes them, from 0.

\* Longest byte string the tokenizer, the quote scanner and dequote are given.
MaxLen == 5

\* The bytes the text functions tell apart, and "a" for every other byte.
Bytes == {"(", ")", "\"", "\\", " ", "a"}

\* What strip(), lstrip() and split() take off (ASCII whitespace).
Whitespace == {" ", "\n"}

\* s[a:b]
Slice(s, a, b) == SubSeq(s, a + 1, b)

lstrip_nothing(s) == s

RECURSIVE lstrip(_)
lstrip(s) ==
    IF s # <<>> /\ Head(s) \in Whitespace THEN lstrip(Tail(s)) ELSE s

RECURSIVE rstrip(_)
rstrip(s) ==
    IF s # <<>> /\ s[Len(s)] \in Whitespace
      THEN rstrip(Slice(s, 0, Len(s) - 1))
      ELSE s

strip(s) == lstrip(rstrip(s))

\* s.find(q): the index of the first q, -1 when there is none.
find(s, q) ==
    IF \E i \in 1..Len(s) : s[i] = q
      THEN (CHOOSE i \in 1..Len(s) :
                s[i] = q /\ \A j \in 1..(i - 1) : s[j] # q) - 1
      ELSE -1

\* __split_quoted, lines 44-48: walk back over the backslashes before next_q.
RECURSIVE is_escaped_loop(_, _, _)
is_escaped_loop(rest, i, is_escaped) ==
    IF i >= 0 /\ rest[i + 1] = "\\"
      THEN is_escaped_loop(rest, i - 1, ~is_escaped)
      ELSE is_escaped

is_escaped_by_one(rest, next_q) == next_q >= 1 /\ rest[next_q] = "\\"

is_escaped(rest, next_q) == is_escaped_loop(rest, next_q - 1, FALSE)

\* __split_quoted, the while True loop.
RECURSIVE split_quoted_loop(_, _, _)
split_quoted_loop(q, quoted, rest) ==
    LET next_q == find(rest, q) IN
    IF next_q = -1
      THEN [err |-> "ValueError", quoted |-> <<>>, rest |-> <<>>]
      ELSE LET quoted2 == quoted \o Slice(rest, 0, next_q + 1)
               rest2 == Slice(rest, next_q + 1, Len(rest))
           IN  IF ~is_escaped(rest, next_q)
                 THEN [err |-> "none", quoted |-> quoted2, rest |-> lstrip(rest2)]
                 ELSE split_quoted_loop(q, quoted2, rest2)

split_quoted(s) ==
    IF Len(s) = 0
      THEN [err |-> "none", quoted |-> <<>>, rest |-> <<>>]
      ELSE split_quoted_loop(s[1], <<s[1]>>, Tail(s))

paren_step_closing_only(c, rparenc) == IF c = ")" THEN rparenc - 1 ELSE rparenc

\* imapsplit, lines 74-77: the count of right parentheses to match.
paren_step(c, rparenc) ==
    IF c = ")" THEN rparenc - 1
    ELSE IF c = "(" THEN rparenc + 1
    ELSE rparenc

\* imapsplit, lines 71-78: rpareni when the group ends, -1 for the IndexError
\* of workstr[rpareni] past the end.
RECURSIVE paren_scan(_, _, _)
paren_scan(workstr, rparenc, rpareni) ==
    IF rparenc = 0 THEN rpareni
    ELSE IF rpareni >= Len(workstr) THEN -1
    ELSE paren_scan(workstr, paren_step(workstr[rpareni + 1], rparenc), rpareni + 1)

\* The end of the run of non-whitespace bytes of s from index i.
RECURSIVE word_end(_, _)
word_end(s, i) ==
    IF i < Len(s) /\ s[i + 1] \notin Whitespace THEN word_end(s, i + 1) ELSE i

\* The end of the run of whitespace bytes of s from index i.
RECURSIVE space_end(_, _)
space_end(s, i) ==
    IF i < Len(s) /\ s[i + 1] \in Whitespace THEN space_end(s, i + 1) ELSE i

split_first_word(workstr) ==
    LET a == space_end(workstr, 0) IN
    IF a = Len(workstr) THEN <<>> ELSE <<Slice(workstr, a, word_end(workstr, a))>>

\* workstr.split(maxsplit=1): the first word, and what follows the whitespace
\* after it when that is not empty.
split(workstr) ==
    LET a == space_end(workstr, 0)
        n == word_end(workstr, a)
        b == space_end(workstr, n)
    IN  IF a = Len(workstr) THEN <<>>
        ELSE IF b = Len(workstr) THEN <<Slice(workstr, a, n)>>
        ELSE <<Slice(workstr, a, n), Slice(workstr, b, Len(workstr))>>

\* imapsplit, the while len(workstr) loop.
RECURSIVE imapsplit_loop(_, _)
imapsplit_loop(workstr, retval) ==
    IF Len(workstr) = 0 THEN [err |-> "none", val |-> retval]
    ELSE IF workstr[1] = "(" THEN
        LET rpareni == paren_scan(workstr, 1, 1) IN
        IF rpareni = -1
          THEN [err |-> "IndexError", val |-> <<>>]
          ELSE imapsplit_loop(lstrip(Slice(workstr, rpareni, Len(workstr))),
                              Append(retval, Slice(workstr, 0, rpareni)))
    ELSE IF workstr[1] = "\"" THEN
        LET r == split_quoted(workstr) IN
        IF r.err # "none"
          THEN [err |-> r.err, val |-> <<>>]
          ELSE imapsplit_loop(r.rest, Append(retval, r.quoted))
    ELSE
        LET splits == split(workstr) IN
        IF Len(splits) = 2
          THEN imapsplit_loop(splits[2], Append(retval, splits[1]))
        ELSE IF Len(splits) = 1
          THEN [err |-> "none", val |-> Append(retval, splits[1])]
        ELSE [err |-> "none", val |-> retval]

imapsplit(imapstring) == imapsplit_loop(strip(imapstring), <<>>)

\* s.replace(old, new) for a two-byte old: left to right, without overlap.
RECURSIVE replace(_, _, _)
replace(s, old, new) ==
    IF Len(s) < 2 THEN s
    ELSE IF Slice(s, 0, 2) = old
      THEN new \o replace(Slice(s, 2, Len(s)), old, new)
      ELSE <<s[1]>> \o replace(Tail(s), old, new)

unescape_backslash_first(s) ==
    replace(replace(s, <<"\\", "\\">>, <<"\\">>), <<"\\", "\"">>, <<"\"">>)

\* dequote, lines 116-117.
unescape(s) ==
    replace(replace(s, <<"\\", "\"">>, <<"\"">>), <<"\\", "\\">>, <<"\\">>)

dequote(s) ==
    IF s # <<>> /\ Head(s) = "\"" /\ s[Len(s)] = "\""
      THEN unescape(Slice(s, 1, Len(s) - 1))
      ELSE s

Digits == <<"0", "1", "2", "3", "4", "5", "6", "7", "8", "9">>

Digit == {Digits[i] : i \in 1..Len(Digits)}

Upper == {"A", "B", "C", "D", "E", "F", "G", "H", "I", "J", "K", "L", "M",
          "N", "O", "P", "Q", "R", "S", "T", "U", "V", "W", "X", "Y", "Z"}

Lower == {"a", "b", "c", "d", "e", "f", "g", "h", "i", "j", "k", "l", "m",
          "n", "o", "p", "q", "r", "s", "t", "u", "v", "w", "x", "y", "z"}

\* b'INTERNALDATE "'
Keyword ==
    <<"I", "N", "T", "E", "R", "N", "A", "L", "D", "A", "T", "E", " ", "\"">>

\* The expression InternalDate after its leading .* : the bytes each position
\* admits.
InternalDate ==
    [i \in 1..Len(Keyword) |-> {Keyword[i]}] \o
    <<{" ", "0", "1", "2", "3"}, Digit, {"-"}, Upper, Lower, Lower, {"-"},
      Digit, Digit, Digit, Digit, {" "}, Digit, Digit, {":"}, Digit, Digit,
      {":"}, Digit, Digit, {" "}, {"+"}, {"0"}, {"0"}, {"0"}, {"0"}, {"\""}>>

\* InternalDate.match(resp): where the keyword starts in the match, -1 for no
\* match.  The match starts at the first byte of resp; .* is greedy and does
\* not pass a newline.
match(resp) ==
    LET P == {p \in 0..Len(resp) :
                /\ \A j \in 1..p : resp[j] # "\n"
                /\ p + Len(InternalDate) <= Len(resp)
                /\ \A k \in 1..Len(InternalDate) : resp[p + k] \in InternalDate[k]}
    IN  IF P = {} THEN -1 ELSE CHOOSE p \in P : \A r \in P : r <= p

\* int(b): base 10, whitespace around the digits ignored.
RECURSIVE int(_)
int(b) ==
    LET s == strip(b) IN
    IF s = <<>> THEN 0
    ELSE 10 * int(Slice(s, 0, Len(s) - 1))
           + (CHOOSE i \in 1..Len(Digits) : Digits[i] = s[Len(s)]) - 1

\* Months[1:]
Months ==
    <<<<"J", "a", "n">>, <<"F", "e", "b">>, <<"M", "a", "r">>, <<"A", "p", "r">>,
      <<"M", "a", "y">>, <<"J", "u", "n">>, <<"J", "u", "l">>, <<"A", "u", "g">>,
      <<"S", "e", "p">>, <<"O", "c", "t">>, <<"N", "o", "v">>, <<"D", "e", "c">>>>

\* Mon2num[mon]; 0 stands for the KeyError of a name that is not a key.
Mon2num(mon) ==
    IF \E n \in 0..(Len(Months) - 1) : Months[n + 1] = mon
      THEN (CHOOSE n \in 0..(Len(Months) - 1) : Months[n + 1] = mon) + 1
      ELSE 0

Internaldate2tuple(resp) ==
    LET p == match(resp) IN
    IF p = -1 THEN [err |-> "none", found |-> FALSE, val |-> <<>>]
    ELSE LET day == int(Slice(resp, p + 14, p + 16))
             mon == Mon2num(Slice(resp, p + 17, p + 20))
             year == int(Slice(resp, p + 21, p + 25))
             hour == int(Slice(resp, p + 26, p + 28))
             min == int(Slice(resp, p + 29, p + 31))
             sec == int(Slice(resp, p + 32, p + 34))
         IN  IF mon = 0
               THEN [err |-> "KeyError", found |-> FALSE, val |-> <<>>]
               ELSE [err |-> "none", found |-> TRUE,
                     val |-> <<year, mon, day, hour, min, sec, 0, 1, -1, 0>>]

----------------------------------------------------------------------------
\* The state main() starts in, for an account whose listing is one of L.
InitOf(L) ==
    /\ mailboxes \in L
    /\ \E k \in [Selectable -> 0..MaxUid] :
          /\ \A f \in Selectable : k[f] <= UidCap(f)
          /\ remote = [f \in Folders |->
                          IF f \notin Range(mailboxes) THEN {}
                          ELSE IF f \in Selectable THEN 1..k[f]
                          ELSE 1..UidCap(f)]
          /\ uidnext = [f \in Folders |-> Cardinality(remote[f]) + 1]
    /\ changes = 0
    /\ run = 1
    /\ dirs = {}
    /\ files = [f \in Folders |-> [u \in UIDs |-> "absent"]]
    /\ ledger = [f \in Folders |-> [u \in UIDs |-> 0]]
    /\ pc = "connect"
    /\ exc = NoExc
    /\ loc = InitLoc
    /\ fetched = <<>>
    /\ stored = {}
    /\ interrupted = FALSE
    /\ selected = <<>>
    /\ call = NoCall

Init == InitOf(Listings)

----------------------------------------------------------------------------
\* main() and download(), one action per remote command or local step.

\* connect(): IMAP4_SSL(host) and login.  imaplib raises IMAP4.error on a
\* rejected login and IMAP4.abort when the session drops.
Connect ==
    /\ pc = "connect"
    /\ \E r \in {"OK", "NO", "abort"} :
          CASE r = "OK" -> pc' = "list" /\ exc' = NoExc
            [] r = "NO" -> Raise("error", 182)
            [] r = "abort" -> Raise("abort", 181)
    /\ UNCHANGED <<call, server, disk, loc, hist>>

\* get_folders(): LIST, then imapsplit of every item; the third token is the name.
List ==
    /\ pc = "list"
    /\ \E r \in {"OK", "NO", "abort", "malformed"} :
          CASE r = "OK" ->
                  /\ pc' = "loop"
                  /\ loc' = [loc EXCEPT !.folders = mailboxes, !.idx = 1]
                  /\ UNCHANGED exc
            [] r = "NO" -> Raise("AssertionError", 190) /\ UNCHANGED loc
            [] r = "abort" -> Raise("abort", 189) /\ UNCHANGED loc
            [] r = "malformed" -> Raise("ValueError", 192) /\ UNCHANGED loc
    /\ UNCHANGED <<call, server, disk, hist>>

\* for folder in folders: ... if folder_unquoted in [...]: continue.  When the
\* list is exhausted download() returns and main() leaves its loop.
NextFolder ==
    /\ pc = "loop"
    /\ IF loc.idx > Len(loc.folders)
         THEN pc' = "done" /\ loc' = InitLoc /\ selected' = <<>>
         ELSE IF Excluded(Folder)
                THEN /\ pc' = "loop"
                     /\ loc' = [loc EXCEPT !.idx = @ + 1]
                     /\ UNCHANGED selected
                ELSE pc' = "select" /\ UNCHANGED <<loc, selected>>
    /\ UNCHANGED <<call, server, disk, exc, fetched, stored, interrupted>>

\* SELECT read-only, LocalFolder(...), count(), and the comparison of the counts.
Select ==
    /\ pc = "select"
    /\ selected' = Append(selected, Folder)
    /\ \E r \in {"OK", "NO", "abort"} :
          CASE r = "OK" ->
                  LET count == Cardinality(remote[Folder])
                      ds == dirs \cup Prefixes(Folder)
                      existing_count == LocalCount(Folder, ds, files)
                  IN  /\ dirs' = ds
                      /\ fetched' = <<>>
                      /\ IF NeedsSync(count, existing_count)
                           THEN /\ pc' = "search"
                                /\ loc' = [loc EXCEPT !.count = count,
                                              !.existing_count = existing_count]
                           ELSE /\ pc' = "loop"
                                /\ loc' = [loc EXCEPT !.count = count,
                                              !.existing_count = existing_count,
                                              !.idx = @ + 1]
                      /\ UNCHANGED exc
            [] r = "NO" ->
                  Raise("AssertionError", 205) /\ UNCHANGED <<dirs, loc, fetched>>
            [] r = "abort" ->
                  Raise("abort", 204) /\ UNCHANGED <<dirs, loc, fetched>>
    /\ UNCHANGED <<call, server, files, ledger, stored, interrupted>>

\* UID SEARCH ALL, get_existing(), the two assertions and the missing list.
\* get_existing() does int(f.split(".")[0]) on every entry: a sub-directory
\* entry raises ValueError.
Search ==
    /\ pc = "search"
    /\ \E r \in {"OK", "NO", "abort"} :
          CASE r = "OK" ->
                  LET remote_uids == remote[Folder]
                      local_uids == FileIds(Folder, files)
                      missing_uids == MissingUids(remote_uids, local_uids)
                      got == [loc EXCEPT !.remote_uids = remote_uids]
                      got2 == [got EXCEPT !.local_uids = local_uids]
                  IN  IF SubDirs(Folder, dirs) # {}
                        THEN Raise("ValueError", 159) /\ loc' = got
                      ELSE IF ~SubsetOk(local_uids, remote_uids)
                        THEN Raise("AssertionError", 221) /\ loc' = got2
                      ELSE IF ~CountOk(missing_uids, loc.count, loc.existing_count)
                        THEN /\ Raise("AssertionError", 224)
                             /\ loc' = [got2 EXCEPT !.missing_uids = missing_uids]
                      ELSE /\ pc' = "fetch"
                           /\ loc' = [got2 EXCEPT !.missing_uids = missing_uids,
                                                  !.pos = 1]
                           /\ UNCHANGED exc
            [] r = "NO" -> Raise("AssertionError", 217) /\ UNCHANGED loc
            [] r = "abort" -> Raise("abort", 216) /\ UNCHANGED loc
    /\ UNCHANGED <<call, server, disk, hist>>

\* for msg_uid in missing_uids: UID FETCH.  A UID the server no longer holds is
\* answered OK with no data, and unpacking resp[1][0] raises TypeError.  When
\* the list is exhausted the pass is over: the locals of the pass are dead and
\* are cleared.
Fetch ==
    /\ pc = "fetch"
    /\ IF loc.pos > Len(loc.missing_uids)
         THEN /\ pc' = "loop"
              /\ loc' = [InitLoc EXCEPT !.folders = loc.folders,
                                        !.idx = loc.idx + 1]
              /\ fetched' = <<>>
              /\ UNCHANGED exc
         ELSE LET msg_uid == loc.missing_uids[loc.pos] IN
              /\ fetched' = Append(fetched, msg_uid)
              /\ \E r \in {"OK", "NO", "abort"} :
                    CASE r = "OK" ->
                            IF msg_uid \in remote[Folder]
                              THEN \E d \in MsgKinds :
                                      /\ pc' = "store_open"
                                      /\ loc' = [loc EXCEPT !.msg_uid = msg_uid,
                                                            !.data = d]
                                      /\ UNCHANGED exc
                              ELSE Raise("TypeError", 233) /\ UNCHANGED loc
                      [] r = "NO" ->
                            Raise("AssertionError", 232) /\ UNCHANGED loc
                      [] r = "abort" ->
                            Raise("abort", 227) /\ UNCHANGED loc
    /\ UNCHANGED <<call, server, disk, stored, interrupted, selected>>

StoreOpenUnchecked ==
    /\ files' = [files EXCEPT ![Folder][loc.msg_uid] = "open"]
    /\ pc' = "store_write"
    /\ UNCHANGED exc

\* store(): assert not os.path.exists(filename); open(filename, "wb").
StoreOpenBody ==
    IF files[Folder][loc.msg_uid] # "absent"
      THEN Raise("AssertionError", 163) /\ UNCHANGED files
      ELSE /\ files' = [files EXCEPT ![Folder][loc.msg_uid] = "open"]
           /\ pc' = "store_write"
           /\ UNCHANGED exc

StoreOpen ==
    /\ pc = "store_open"
    /\ StoreOpenBody
    /\ UNCHANGED <<call, server, dirs, ledger, loc, hist>>

\* store(): f.write(data) and the close of the with block.
StoreWrite ==
    /\ pc = "store_write"
    /\ files' = [files EXCEPT ![Folder][loc.msg_uid] = "written"]
    /\ pc' = "store_utime"
    /\ UNCHANGED <<call, server, dirs, ledger, exc, loc, hist>>

StoreUtimeCleaningUp ==
    IF loc.data = "none"
      THEN /\ Raise("TypeError", 176)
           /\ files' = [files EXCEPT ![Folder][loc.msg_uid] = "absent"]
           /\ UNCHANGED stored
      ELSE /\ files' = [files EXCEPT ![Folder][loc.msg_uid] = "stamped"]
           /\ stored' = stored \cup {<<Folder, loc.msg_uid>>}
           /\ pc' = "stored"
           /\ UNCHANGED exc

\* store(): the Date header, else Internaldate2tuple(metadata); mktime_tz of
\* None raises TypeError; os.utime.
StoreUtimeBody ==
    IF loc.data = "none"
      THEN Raise("TypeError", 176) /\ UNCHANGED <<files, stored>>
      ELSE /\ files' = [files EXCEPT ![Folder][loc.msg_uid] = "stamped"]
           /\ stored' = stored \cup {<<Folder, loc.msg_uid>>}
           /\ pc' = "stored"
           /\ UNCHANGED exc

StoreUtime ==
    /\ pc = "store_utime"
    /\ StoreUtimeBody
    /\ UNCHANGED <<call, server, dirs, ledger, loc, fetched, interrupted, selected>>

\* insert into emails ...; conn.commit(); time.sleep(1).
Insert ==
    /\ pc = "stored"
    /\ ledger' = [ledger EXCEPT ![Folder][RowUid(loc.msg_uid, loc.pos)] = @ + 1]
    /\ loc' = [loc EXCEPT !.pos = @ + 1, !.msg_uid = 0, !.data = "none"]
    /\ pc' = "fetch"
    /\ UNCHANGED <<call, server, dirs, files, exc, hist>>

\* main(): except imaplib.IMAP4.abort: print(e); anything else leaves main().
Except ==
    /\ pc = "raised"
    /\ pc' = IF Caught(exc) THEN "backoff" ELSE "failed"
    /\ exc' = IF Caught(exc) THEN NoExc ELSE exc
    /\ loc' = InitLoc
    /\ fetched' = <<>>
    /\ selected' = <<>>
    /\ UNCHANGED <<call, server, disk, stored, interrupted>>

\* main(): time.sleep(60), then the loop's next turn.
Backoff ==
    /\ pc = "backoff"
    /\ pc' = "connect"
    /\ UNCHANGED <<call, server, disk, exc, loc, hist>>

----------------------------------------------------------------------------
\* The process and its environment.

KillReset ==
    /\ pc' = "crashed"
    /\ exc' = NoExc
    /\ loc' = InitLoc
    /\ fetched' = <<>>
    /\ stored' = {}
    /\ selected' = <<>>

\* The process is stopped (killed, power loss) between any two steps.
Kill ==
    /\ pc \notin EndPcs \cup {"idle"}
    /\ KillReset
    /\ UNCHANGED <<call, server, disk, interrupted>>

\* The process is stopped in the middle of a mailbox pass, between two
\* statements outside store(), and the behaviour remembers that it was.
Interrupt ==
    /\ pc \in {"select", "search", "fetch", "stored"}
    /\ KillReset
    /\ interrupted' = TRUE
    /\ UNCHANGED <<call, server, disk>>

\* The program is run again (by hand or by a scheduler).
Invoke ==
    /\ pc \in EndPcs
    /\ run < MaxRuns
    /\ run' = run + 1
    /\ pc' = "connect"
    /\ exc' = NoExc
    /\ stored' = {}
    /\ UNCHANGED <<call, mailboxes, remote, uidnext, changes, disk, loc, fetched,
                   interrupted, selected>>

\* The client reads the server's mailboxes at SELECT, SEARCH and FETCH only: a
\* change made at any other moment is the same change made just before the
\* next of these commands, so the model takes it there.
ReadPcs == {"select", "search", "fetch"}

\* A message is expunged from a mailbox by another client.
RemoteExpunge ==
    /\ pc \in ReadPcs
    /\ changes < MaxChanges
    /\ changes' = changes + 1
    /\ \E f \in Range(mailboxes) \cap Selectable : \E u \in remote[f] :
          remote' = [remote EXCEPT ![f] = @ \ {u}]
    /\ UNCHANGED <<call, mailboxes, uidnext, run, disk, pc, exc, loc, hist>>

\* A message arrives in a mailbox: it gets the next UID.
RemoteArrive ==
    /\ pc \in ReadPcs
    /\ changes < MaxChanges
    /\ changes' = changes + 1
    /\ \E f \in Range(mailboxes) \cap Selectable :
          /\ uidnext[f] <= UidCap(f)
          /\ remote' = [remote EXCEPT ![f] = @ \cup {uidnext[f]}]
          /\ uidnext' = [uidnext EXCEPT ![f] = @ + 1]
    /\ UNCHANGED <<call, mailboxes, run, disk, pc, exc, loc, hist>>

Run ==
    \/ Connect \/ List \/ NextFolder \/ Select \/ Search \/ Fetch
    \/ StoreOpen \/ StoreWrite \/ StoreUtime \/ Insert
    \/ Except \/ Backoff

Next == Run \/ Kill \/ Invoke \/ RemoteExpunge \/ RemoteArrive

Spec == Init /\ [][Next]_vars

\* The server's mailboxes do not change and the process is stopped only in a
\* mailbox pass, between store() calls.
NextStable == Run \/ Interrupt \/ Invoke

SpecStable == Init /\ [][NextStable]_vars

\* LIST in any order: the server may also name a mailbox before the mailbox
\* its directory lies in.
ListingsAnyOrder == Listings \cup {<<Sent, INBOX>>}

\* One invocation of main(), left to run: nothing stops the process, the
\* server's mailboxes do not change, and main() takes its next step as long
\* as it has one.
SpecMain == InitOf(ListingsAnyOrder) /\ [][Run]_vars /\ WF_vars(Run)

----------------------------------------------------------------------------
\* LocalFolder on its own: any caller constructs LocalFolder(path) and calls
\* store(uid, data, metadata) with any identifier and any message, again and
\* again, whatever the last call did (returned, raised, or was stopped).

InitStore ==
    /\ mailboxes \in Listings
    /\ remote = [f \in Folders |-> {}]
    /\ uidnext = [f \in Folders |-> 1]
    /\ changes = 0
    /\ run = 1
    /\ dirs = {}
    /\ files = [f \in Folders |-> [u \in UIDs |-> "absent"]]
    /\ ledger = [f \in Folders |-> [u \in UIDs |-> 0]]
    /\ pc = "idle"
    /\ exc = NoExc
    /\ loc = InitLoc
    /\ fetched = <<>>
    /\ stored = {}
    /\ interrupted = FALSE
    /\ selected = <<>>
    /\ call = NoCall

CallStore ==
    /\ pc \in {"idle", "stored", "raised", "crashed"}
    /\ \E f \in Range(mailboxes) \cap Selectable, u \in UIDs, d \in MsgKinds :
          /\ dirs' = dirs \cup Prefixes(f)
          /\ loc' = [InitLoc EXCEPT !.folders = <<f>>, !.idx = 1,
                                    !.msg_uid = u, !.data = d]
    /\ pc' = "store_open"
    /\ exc' = NoExc
    /\ UNCHANGED <<call, server, files, ledger, hist>>

NextStore == CallStore \/ StoreOpen \/ StoreWrite \/ StoreUtime \/ Kill

SpecStore == InitStore /\ [][NextStore]_vars

----------------------------------------------------------------------------
\* The text functions driven on their own: an argument is drawn, and one of
\* the functions is applied to it.

\* Every byte string of at most MaxLen bytes.
ByteStrings == UNION {[1..n -> Bytes] : n \in 0..MaxLen}

\* Longer arguments, after the docstrings of imapsplit and __split_quoted:
\* (\a) "a" "aa", "a \" a" (\a), "a\\\"a" and the unbalanced (\a (\a.
Examples ==
    {<<"(", "\\", "a", ")", " ", "\"", "a", "\"", " ", "\"", "a", "a", "\"">>,
     <<"\"", "a", " ", "\\", "\"", " ", "a", "\"", " ", "(", "\\", "a", ")">>,
     <<"\"", "a", "\\", "\\", "\\", "\"", "a", "\"">>,
     <<"(", "\\", "a", " ", "(", "\\", "a">>}

\* The parts of a metadata response with an INTERNALDATE item, each text with
\* the number it stands for.
Leads == {<<>>, <<"1", " ", "(">>, <<"a", " ", "a", " ", "(">>}

Days ==
    {[text |-> <<"0", "1">>, val |-> 1], [text |-> <<" ", "5">>, val |-> 5],
     [text |-> <<"3", "1">>, val |-> 31]}

MonthNames == Range(Months) \cup {<<"F", "o", "o">>, <<"j", "a", "n">>}

Years ==
    {[text |-> <<"2", "0", "2", "0">>, val |-> 2020],
     [text |-> <<"1", "9", "9", "9">>, val |-> 1999]}

Times ==
    {[text |-> <<"0", "0", ":", "0", "0", ":", "0", "0">>,
      hour |-> 0, min |-> 0, sec |-> 0],
     [text |-> <<"2", "3", ":", "5", "9", ":", "0", "7">>,
      hour |-> 23, min |-> 59, sec |-> 7]}

Offsets == {<<"+", "0", "0", "0", "0">>, <<"+", "0", "1", "0", "0">>}

DateFields ==
    [lead : Leads, day : Days, mon : MonthNames, year : Years, time : Times,
     offset : Offsets]

\* The response with the item d: ... INTERNALDATE "DD-Mon-YYYY HH:MM:SS +ZZZZ")
Response(d) ==
    d.lead \o Keyword \o d.day.text \o <<"-">> \o d.mon \o <<"-">> \o d.year.text
      \o <<" ">> \o d.time.text \o <<" ">> \o d.offset \o <<"\"", ")">>

InitText ==
    /\ mailboxes = <<>>
    /\ remote = [f \in Folders |-> {}]
    /\ uidnext = [f \in Folders |-> 1]
    /\ changes = 0
    /\ run = 1
    /\ dirs = {}
    /\ files = [f \in Folders |-> [u \in UIDs |-> "absent"]]
    /\ ledger = [f \in Folders |-> [u \in UIDs |-> 0]]
    /\ pc = "idle"
    /\ exc = NoExc
    /\ loc = InitLoc
    /\ fetched = <<>>
    /\ stored = {}
    /\ interrupted = FALSE
    /\ selected = <<>>
    /\ \/ \E s \in ByteStrings \cup Examples :
             call = [NoCall EXCEPT !.kind = "bytes", !.src = s, !.arg = s]
       \/ \E d \in DateFields :
             call = [NoCall EXCEPT !.kind = "date", !.src = d, !.arg = Response(d)]

Apply(fn, ret) ==
    /\ call.fn = "none"
    /\ call' = [call EXCEPT !.fn = fn, !.ret = ret]
    /\ UNCHANGED <<server, disk, pc, exc, loc, hist>>

CallImapsplit == Apply("imapsplit", imapsplit(call.arg))

CallSplitQuoted == Apply("split_quoted", split_quoted(call.arg))

CallDequote == Apply("dequote", dequote(call.arg))

CallInternaldate2tuple == Apply("Internaldate2tuple", Internaldate2tuple(call.arg))

NextText == CallImapsplit \/ CallSplitQuoted \/ CallDequote \/ CallInternaldate2tuple

SpecText == InitText /\ [][NextText]_vars

----------------------------------------------------------------------------
\* Properties.

PassPcs == {"fetch", "stored"} \cup StorePcs

NonAbortKinds == {"error", "AssertionError", "ValueError", "TypeError"}

Present(f, u) == files[f][u] # "absent"

Listed == Range(mailboxes) \cap Selectable

\* C1: in a mailbox pass that got past both assertions, the identifiers for
\* which FETCH has been issued are in strictly ascending order, all of them are
\* in (remote - local), none of them was present locally, none of (remote -
\* local) below the last one fetched was left out, and when the loop is
\* exhausted they are exactly (remote - local).
C1_FetchesMissingAscending ==
    pc \in PassPcs =>
        LET missing == loc.remote_uids \ loc.local_uids IN
        /\ \A i \in 1..Len(fetched) :
              /\ fetched[i] \in missing
              /\ fetched[i] \notin loc.local_uids
              /\ \A j \in 1..Len(fetched) : i < j => fetched[i] < fetched[j]
              /\ \A u \in missing : u < fetched[i] => u \in Range(fetched)
        /\ (pc = "fetch" /\ loc.pos > Len(loc.missing_uids)) =>
              Range(fetched) = missing

\* C1 happens: a pass has fetched two identifiers, 1 then 2, and is over.
C1_Witness ==
    /\ pc = "fetch"
    /\ loc.pos > Len(loc.missing_uids)
    /\ fetched = <<1, 2>>

\* C2: in a run that follows an interruption of a mailbox pass between store()
\* calls, with the server's mailboxes unchanged, every mailbox pass whose
\* SEARCH is answered gets past the listing of local identifiers and both
\* assertions, a FETCH is answered only for a message with no local file,
\* store() is never called for a file that exists, and when download() returns
\* every listed, non-excluded mailbox has exactly the files of its remote
\* identifiers.
C2_ResumeCompletes ==
    (interrupted /\ pc # "crashed") =>
        /\ ~(pc = "raised" /\ exc.line \in {159, 221, 224, 163})
        /\ pc = "store_open" => ~Present(Folder, loc.msg_uid)
        /\ pc = "done" => \A f \in Listed : FileIds(f, files) = remote[f]

\* C2 for a flat account (no mailbox directory inside another): the same
\* statement holds; it fails only where a mailbox directory holds another's.
C2_ResumeCompletesFlat ==
    (\A f \in Range(mailboxes) : Len(f) = 1) => C2_ResumeCompletes

\* C3: outside store(), every message file that exists holds the complete
\* content with its modification time set to the message's timestamp.
C3_StoreAtomic ==
    pc \notin StorePcs =>
        \A f \in Selectable, u \in UIDs : files[f][u] \in {"absent", "stamped"}

\* C4: an abort is answered by the backoff and then a new connect, and the
\* LIST that follows starts again with the first mailbox; no step removes a
\* file or a ledger row; and within one invocation no message is fetched, and
\* none is stored, after its store() has already returned.
C4_AbortRestartsKeepingProgress ==
    [][/\ (pc = "raised" /\ exc.kind = "abort" /\ pc' # pc)
            => pc' \in {"backoff", "crashed"}
       /\ (pc = "backoff" /\ pc' # pc) => pc' \in {"connect", "crashed"}
       /\ (pc = "list" /\ pc' = "loop")
            => (loc'.idx = 1 /\ loc'.folders = mailboxes)
       /\ \A f \in Selectable, u \in UIDs :
            /\ Present(f, u) => files'[f][u] # "absent"
            /\ ledger'[f][u] >= ledger[f][u]
       /\ (pc = "fetch" /\ pc' = "store_open")
            => <<Folder, loc'.msg_uid>> \notin stored
       /\ (pc = "store_utime" /\ pc' = "stored")
            => <<Folder, loc.msg_uid>> \notin stored]_vars

\* C4 happens: in the first invocation, a pass finds locally a message stored
\* earlier in the same invocation, so the enumeration was restarted.
C4_Witness ==
    /\ run = 1
    /\ pc = "fetch"
    /\ stored # {}
    /\ \E u \in loc.local_uids : <<Folder, u>> \in stored

\* C5: a SELECT whose count equals the directory's entry count goes on to the
\* next mailbox and changes no file and no ledger row; SEARCH and FETCH are
\* issued only for a mailbox whose counts differed.
C5_EqualCountsSkip ==
    /\ [][(/\ pc = "select"
           /\ pc' \notin {"select", "raised", "crashed"}
           /\ Cardinality(remote[Folder]) = LocalCount(Folder, dirs', files'))
          => (/\ pc' = "loop"
              /\ loc'.idx = loc.idx + 1
              /\ UNCHANGED <<files, ledger, fetched>>)]_vars
    /\ [](pc \in {"search"} \cup PassPcs => loc.count # loc.existing_count)

\* C5 happens: a mailbox that holds messages was skipped for equal counts.
C5_Witness ==
    /\ pc = "loop"
    /\ loc.idx > 1
    /\ loc.count > 0
    /\ loc.count = loc.existing_count

\* C6 as claimed: a mailbox whose local identifiers are not a subset of its
\* remote identifiers is never passed over for the next mailbox.
C6_SubsetAlwaysDetected ==
    [][(/\ pc = "select"
        /\ pc' # pc
        /\ ~(FileIds(Folder, files) \subseteq remote[Folder]))
       => pc' \in {"search", "raised", "crashed"}]_vars

\* C6, amended: once SELECT has found the counts to differ, a SEARCH that is
\* answered for a mailbox whose local identifiers are not a subset of the
\* remote ones raises an error main() does not catch (the subset assertion, or
\* the ValueError of listing a directory that holds a sub-directory), no file,
\* directory or ledger row changes, and the error ends main() with the disk
\* as it was.
C6_SubsetCheckedWhenCountsDiffer ==
    [][/\ (/\ pc = "search"
           /\ pc' \notin {pc, "crashed"}
           /\ ~(pc' = "raised" /\ exc'.line \in {216, 217})
           /\ ~(FileIds(Folder, files) \subseteq remote[Folder]))
          => (/\ pc' = "raised"
              /\ exc'.line \in {159, 221}
              /\ ~Caught(exc')
              /\ UNCHANGED <<dirs, files, ledger>>)
       /\ (pc = "raised" /\ exc.line \in {159, 221} /\ pc' # pc)
          => (pc' \in {"failed", "crashed"} /\ UNCHANGED <<dirs, files, ledger>>)]_vars

\* C6 happens: the subset assertion has failed.
C6_Witness ==
    /\ pc = "raised"
    /\ exc.line = 221
    /\ ~(loc.local_uids \subseteq loc.remote_uids)

\* C7: the ledger holds at most one row per (mailbox, identifier) and only for
\* messages whose file exists; no step removes a row; no row of a message is
\* there while its store() runs; and whenever the next FETCH is due, or
\* download() has returned, every message stored in this invocation has
\* exactly one row.
C7_LedgerOneRowPerStoredMessage ==
    /\ [](\A f \in Selectable, u \in UIDs :
            /\ ledger[f][u] <= 1
            /\ ledger[f][u] >= 1 => Present(f, u))
    /\ [][\A f \in Selectable, u \in UIDs : ledger'[f][u] >= ledger[f][u]]_vars
    /\ [](pc \in StorePcs => ledger[Folder][loc.msg_uid] = 0)
    /\ [](pc \in {"fetch", "loop", "done"} =>
            \A p \in stored : ledger[p[1]][p[2]] = 1)

\* C7 happens: download() has returned after storing two messages, while a
\* file left by an earlier, stopped invocation has no row.
C7_Witness ==
    /\ pc = "done"
    /\ Cardinality(stored) >= 2
    /\ \E f \in Selectable, u \in UIDs : Present(f, u) /\ ledger[f][u] = 0

\* C8: store() for an identifier whose file exists raises the assertion error
\* of line 163 and changes no file.
C8_DuplicateStoreFails ==
    /\ [][(/\ pc = "store_open"
           /\ Present(Folder, loc.msg_uid)
           /\ pc' \notin {pc, "crashed"})
          => (/\ pc' = "raised"
              /\ exc' = [kind |-> "AssertionError", line |-> 163]
              /\ files' = files)]_vars
    /\ [](pc \in {"store_write", "store_utime"} =>
            files[Folder][loc.msg_uid] \in {"open", "written"})

\* C8 happens: store() was called for a complete, stamped file and raised.
C8_Witness ==
    /\ pc = "raised"
    /\ exc.line = 163
    /\ files[Folder][loc.msg_uid] = "stamped"

C10_OnlyAbortRetried ==
    /\ [](pc = "raised" => exc.kind \in NonAbortKinds \cup {"abort"})
    /\ [][/\ (pc = "raised" /\ exc.kind \in NonAbortKinds /\ pc' # pc)
               => pc' \in {"failed", "crashed"}
          /\ (pc = "failed" /\ pc' # pc) => run' = run + 1
          /\ (pc' = "backoff" /\ pc # pc') => (pc = "raised" /\ exc.kind = "abort")
          /\ (pc' = "connect" /\ pc # pc')
               => (pc = "backoff" \/ run' = run + 1)]_vars

\* C10 happens: main() has ended on a missing timestamp, with messages stored
\* before it.
C10_Witness ==
    /\ pc = "failed"
    /\ exc = [kind |-> "TypeError", line |-> 176]
    /\ stored # {}

----------------------------------------------------------------------------
\* Properties of the text functions.  Positions run from 1 over the whole
\* argument.

\* Opening minus closing parentheses in s[i..j].
Depth(s, i, j) ==
    Cardinality({k \in i..j : s[k] = "("}) - Cardinality({k \in i..j : s[k] = ")"})

\* The quote bytes after the opening quote s[i] that are preceded by an even
\* number of consecutive backslashes, counted back to s[i + 1] at most.
ClosingQuotes(s, i) ==
    {j \in (i + 1)..Len(s) :
        /\ s[j] = "\""
        /\ Cardinality({k \in (i + 1)..(j - 1) :
                           \A m \in k..(j - 1) : s[m] = "\\"}) % 2 = 0}

Least(S) == CHOOSE x \in S : \A y \in S : x <= y

\* Where the unit that starts at s[i] ends; 0 when it does not end.
UnitEnd(s, i) ==
    IF s[i] = "("
      THEN LET E == {j \in i..Len(s) : Depth(s, i, j) = 0}
           IN  IF E = {} THEN 0 ELSE Least(E)
    ELSE IF s[i] = "\""
      THEN IF ClosingQuotes(s, i) = {} THEN 0 ELSE Least(ClosingQuotes(s, i))
    ELSE CHOOSE j \in i..Len(s) :
             /\ \A k \in i..j : s[k] \notin Whitespace
             /\ j = Len(s) \/ s[j + 1] \in Whitespace

\* The left-to-right decomposition of s from position i: its units in order,
\* or the opening byte of the first unit that does not end.
RECURSIVE Units(_, _)
Units(s, i) ==
    IF i > Len(s) THEN [open |-> "", val |-> <<>>]
    ELSE IF s[i] \in Whitespace THEN Units(s, i + 1)
    ELSE LET e == UnitEnd(s, i) IN
         IF e = 0 THEN [open |-> s[i], val |-> <<>>]
         ELSE LET r == Units(s, e + 1) IN
              IF r.open # "" THEN r
              ELSE [open |-> "", val |-> <<SubSeq(s, i, e)>> \o r.val]

Returned(fn) == call.fn = fn /\ call.ret.err = "none"

\* C11: whenever imapsplit returns, its result is the left-to-right
\* decomposition of its argument into units: a parenthesized group up to its
\* matching parenthesis, a quoted string up to its closing quote, or a longest
\* run of non-whitespace bytes, in the order of the argument.
C11_ImapsplitIsDecomposition ==
    Returned("imapsplit") =>
        /\ Units(call.arg, 1).open = ""
        /\ call.ret.val = Units(call.arg, 1).val

\* C11 happens: a parenthesized group followed by two quoted strings gave
\* three tokens.
C11_Witness ==
    /\ Returned("imapsplit")
    /\ Len(call.ret.val) = 3
    /\ call.ret.val[1][1] = "("
    /\ call.ret.val[2][1] = "\""
    /\ call.ret.val[3][1] = "\""

\* C12: imapsplit raises, and returns nothing, on every argument whose
\* decomposition stops at a group with no matching closing parenthesis; and
\* every token it returns that begins with "(" ends with ")", with the
\* nesting depth above zero before its last byte and zero at it.
C12_UnbalancedGroupFails ==
    call.fn = "imapsplit" =>
        /\ Units(call.arg, 1).open = "(" =>
              (call.ret.err = "IndexError" /\ call.ret.val = <<>>)
        /\ \A n \in 1..Len(call.ret.val) :
              LET t == call.ret.val[n] IN
              t[1] = "(" =>
                  /\ t[Len(t)] = ")"
                  /\ Depth(t, 1, Len(t)) = 0
                  /\ \A j \in 1..(Len(t) - 1) : Depth(t, 1, j) > 0

\* C12 happens: imapsplit raised on a group opened twice and never closed.
C12_Witness ==
    /\ call.fn = "imapsplit"
    /\ call.ret.err = "IndexError"
    /\ Cardinality({k \in 1..Len(call.arg) : call.arg[k] = "("}) = 2
    /\ \A k \in 1..Len(call.arg) : call.arg[k] # ")"

\* s from position i on, without its leading whitespace.
Stripped(s, i) ==
    LET N == {k \in i..Len(s) : s[k] \notin Whitespace}
    IN  IF N = {} THEN <<>> ELSE SubSeq(s, Least(N), Len(s))

\* C13: for an argument whose first byte is a quote, the quote scanner returns
\* the prefix that ends at the first later quote preceded by an even number of
\* consecutive backslashes (counted back over the whole argument, the opening
\* quote excluded) and the remainder without its leading whitespace; it
\* raises exactly when there is no such quote.
C13_QuoteScannerFindsClosingQuote ==
    (call.fn = "split_quoted" /\ call.arg # <<>> /\ call.arg[1] = "\"") =>
        LET C == ClosingQuotes(call.arg, 1) IN
        IF C = {}
          THEN call.ret.err = "ValueError"
          ELSE /\ call.ret.err = "none"
               /\ call.ret.quoted = SubSeq(call.arg, 1, Least(C))
               /\ call.ret.rest = Stripped(call.arg, Least(C) + 1)

\* C13 happens: the scanner passed an escaped quote, closed at a later quote
\* and returned a remainder.
C13_Witness ==
    /\ Returned("split_quoted")
    /\ call.arg[1] = "\""
    /\ \E j \in 2..(Len(call.ret.quoted) - 1) : call.ret.quoted[j] = "\""
    /\ call.ret.rest # <<>>
    /\ Len(call.ret.quoted) + Len(call.ret.rest) < Len(call.arg)

\* One pass over s from the left: backslash quote gives a quote, backslash
\* backslash gives one backslash, any other byte gives itself.
RECURSIVE Decode(_)
Decode(s) ==
    IF s = <<>> THEN <<>>
    ELSE IF Len(s) >= 2 /\ s[1] = "\\" /\ s[2] \in {"\"", "\\"}
      THEN <<s[2]>> \o Decode(SubSeq(s, 3, Len(s)))
      ELSE <<s[1]>> \o Decode(Tail(s))

\* x with each backslash doubled and each quote prefixed by a backslash.
RECURSIVE Escape(_)
Escape(x) ==
    IF x = <<>> THEN <<>>
    ELSE (IF x[1] \in {"\"", "\\"} THEN <<"\\", x[1]>> ELSE <<x[1]>>)
           \o Escape(Tail(x))

Quote(x) == <<"\"">> \o Escape(x) \o <<"\"">>

\* C14: for a token that starts and ends with a quote, dequote returns the
\* one-pass decoding of what is between the quotes; and for every byte string
\* x, dequote of the quoted form of x is x.
C14_DequoteDecodesAndInvertsQuoting ==
    /\ (/\ call.fn = "dequote"
        /\ Len(call.arg) >= 2
        /\ call.arg[1] = "\""
        /\ call.arg[Len(call.arg)] = "\"")
          => call.ret = Decode(SubSeq(call.arg, 2, Len(call.arg) - 1))
    /\ (call.fn = "dequote" /\ call.kind = "bytes")
          => dequote(Quote(call.src)) = call.src

\* C14 happens: dequote decoded an escaped backslash followed by an escaped
\* quote to backslash, quote.
C14_Witness ==
    /\ call.fn = "dequote"
    /\ \E i \in 2..(Len(call.arg) - 4) :
          SubSeq(call.arg, i, i + 3) = <<"\\", "\\", "\\", "\"">>
    /\ \E i \in 1..(Len(call.ret) - 1) :
          SubSeq(call.ret, i, i + 1) = <<"\\", "\"">>
    /\ Quote(call.ret) = call.arg

\* The item of response d has the form DD-Mon-YYYY HH:MM:SS +0000, Mon being
\* one of the twelve abbreviations.
WellFormed(d) == d.offset = <<"+", "0", "0", "0", "0">> /\ d.mon \in Range(Months)

\* Year, month number (Jan = 1, ..., Dec = 12), day, hour, minute and second
\* of the item of response d.
FieldsOf(d) ==
    <<d.year.val, CHOOSE n \in 1..12 : Months[n] = d.mon, d.day.val,
      d.time.hour, d.time.min, d.time.sec>>

DateAnswer ==
    IF call.kind = "date" /\ WellFormed(call.src)
      THEN /\ call.ret.err = "none"
           /\ call.ret.found
           /\ SubSeq(call.ret.val, 1, 6) = FieldsOf(call.src)
      ELSE /\ call.ret.err = "none"
           /\ ~call.ret.found

\* C15: for a response with an INTERNALDATE item of the form DD-Mon-YYYY
\* HH:MM:SS +0000, Internaldate2tuple returns the year, month number, day,
\* hour, minute and second of the item; for any other response (an item with
\* another offset or another month text, or no item) it returns not-found and
\* does not raise.
C15_InternaldateFoundOrNotFound ==
    call.fn = "Internaldate2tuple" => DateAnswer

\* C15 where the code meets it: the month text of the item is one of the
\* twelve abbreviations, or has not the shape of one (a capital and two small
\* letters).
C15_KnownMonth ==
    (/\ call.fn = "Internaldate2tuple"
     /\ call.kind = "date" => call.src.mon # <<"F", "o", "o">>)
        => DateAnswer

\* From position i on, s is whitespace and the tokens toks[k], toks[k + 1], ...
\* in this order: each token a slice of s, nothing but whitespace between,
\* before and after them.
RECURSIVE Covered(_, _, _, _)
Covered(s, i, toks, k) ==
    IF k > Len(toks)
      THEN \A j \in i..Len(s) : s[j] \in Whitespace
      ELSE \E p \in i..Len(s) :
              /\ \A j \in i..(p - 1) : s[j] \in Whitespace
              /\ p + Len(toks[k]) - 1 <= Len(s)
              /\ SubSeq(s, p, p + Len(toks[k]) - 1) = toks[k]
              /\ Covered(s, p + Len(toks[k]), toks, k + 1)

\* C19: whenever imapsplit returns, no token is empty, every token begins
\* with a non-whitespace byte, the tokens are slices of the argument that
\* follow one another without overlap, and every byte of the argument outside
\* them is whitespace.
C19_TokensCoverArgument ==
    Returned("imapsplit") =>
        /\ \A n \in 1..Len(call.ret.val) :
              /\ call.ret.val[n] # <<>>
              /\ call.ret.val[n][1] \notin Whitespace
        /\ Covered(call.arg, 1, call.ret.val, 1)

\* C19 happens: imapsplit returned two tokens for an argument with whitespace
\* before, between and after them.
C19_Witness ==
    /\ Returned("imapsplit")
    /\ Len(call.ret.val) = 2
    /\ call.arg[1] \in Whitespace
    /\ call.arg[Len(call.arg)] \in Whitespace
    /\ Len(call.ret.val[1]) + Len(call.ret.val[2]) + 3 = Len(call.arg)

----------------------------------------------------------------------------
\* Properties of the driver, continued.

\* No error other than a session abort is raised.
NoOtherError == ~(pc = "raised" /\ exc.kind \in NonAbortKinds)

\* main() has returned with, for every listed mailbox that is not excluded,
\* the local identifiers equal to the remote ones.
ReturnedInSync ==
    /\ pc = "done"
    /\ \A f \in Listed : FileIds(f, files) = remote[f]

\* C16: in an invocation that starts with the local identifiers of every
\* mailbox a subset of the remote ones, whose server does not change, in which
\* no error other than an abort is ever raised and aborts stop at some point,
\* main() eventually returns, and returns with the local identifiers of every
\* mailbox that is not excluded equal to the remote ones.
C16_TerminatesInSync ==
    ([]NoOtherError /\ <>[](pc # "raised")) => <>ReturnedInSync

\* C16 for a flat account: no mailbox directory lies inside another, and the
\* statement holds.
C16_FlatTerminatesInSync ==
    ((\A f \in Range(mailboxes) : Len(f) = 1) /\ []NoOtherError /\ <>[](pc # "raised"))
        => <>ReturnedInSync

\* C17: every entry of a mailbox directory is a message file, so count() is
\* the number of identifiers get_existing() returns, and get_existing() never
\* raises.
C17_DirectoryHoldsOnlyMessageFiles ==
    /\ \A f \in Selectable :
          /\ SubDirs(f, dirs) = {}
          /\ LocalCount(f, dirs, files) = Cardinality(FileIds(f, files))
    /\ ~(pc = "raised" /\ exc.line = 159)

\* C17 for a flat account: no mailbox directory lies inside another, and the
\* statement holds.
C17_FlatDirectoryHoldsOnlyMessageFiles ==
    (\A f \in Range(mailboxes) : Len(f) = 1) => C17_DirectoryHoldsOnlyMessageFiles

\* C18: no step removes a message file; a file is created only by store() for
\* the identifier it was called with, and only where there was none; and a
\* file that exists changes only in the store() call that created it, never
\* once it is complete and stamped.
C18_FilesNeverRemovedOrRewritten ==
    [][files' # files =>
          /\ pc \in StorePcs
          /\ \A f \in Folders, u \in UIDs :
                /\ Present(f, u) => files'[f][u] # "absent"
                /\ files'[f][u] = "open" => files[f][u] \in {"absent", "open"}
                /\ files[f][u] = "stamped" => files'[f][u] = "stamped"
                /\ files'[f][u] # files[f][u] => (f = Folder /\ u = loc.msg_uid)]_vars

\* C18 happens: a second invocation has returned after storing a message, with
\* a file stored by the first, a file the first left unstamped at its error,
\* and both as they were.
C18_Witness ==
    /\ run = 2
    /\ pc = "done"
    /\ stored # {}
    /\ \E f \in Selectable, u \in UIDs :
          files[f][u] = "stamped" /\ <<f, u>> \notin stored
    /\ \E f \in Selectable, u \in UIDs : files[f][u] \in {"open", "written"}

\* The names "Bulk Mail" and "Bulk".
BulkNames == {BulkMail, Bulk}

NotBulk(f) == f \notin BulkNames

\* The mailboxes of a listing that are to be selected, in listing order.
ToSelect(folders) == SelectSeq(folders, NotBulk)

\* C20: for a mailbox named "Bulk Mail" or "Bulk" no SELECT, SEARCH or FETCH is
\* issued, no directory is created and no file or ledger row written; the
\* mailboxes for which SELECT was issued in a pass are the other listed
\* mailboxes, each once and in listing order, all of them when download()
\* returns; and no step of the driver changes a mailbox on the server.
C20_BulkSkippedOthersSelectedOnce ==
    /\ [](\A f \in BulkNames :
            /\ f \notin dirs
            /\ \A u \in UIDs : files[f][u] = "absent" /\ ledger[f][u] = 0)
    /\ [](pc \in {"select", "search"} \cup PassPcs => Folder \notin BulkNames)
    /\ [](pc \in {"loop", "select"} =>
            selected = ToSelect(SubSeq(loc.folders, 1, loc.idx - 1)))
    /\ [](pc \in {"search"} \cup PassPcs =>
            selected = ToSelect(SubSeq(loc.folders, 1, loc.idx)))
    /\ [][pc' = "done" => selected = ToSelect(mailboxes)]_vars
    /\ [][pc' # pc => remote' = remote]_vars

\* C20 happens: the list that holds "Bulk Mail" is exhausted, SELECT was issued
\* for the two other mailboxes and messages were stored.
C20_Witness ==
    /\ pc = "loop"
    /\ loc.idx > Len(loc.folders)
    /\ \E i \in 1..Len(loc.folders) : loc.folders[i] = BulkMail
    /\ Len(selected) = 2
    /\ stored # {}

====
